---- MODULE Spec2Model ----
(***************************************************************************)
(* Model of the Sentinel-2 metadata converter                              *)
(*   src/sentinel_s3/converter.py  (epsg_code, convert_coordinates,        *)
(*       to_latlon, camelcase_underscore, get_tiles_list,                  *)
(*       metadata_to_dict, tile_metadata)                                  *)
(*   src/scrawler/converter.py     (tile_metadata, the older variant)      *)
(*                                                                         *)
(* Python values are tagged records [t |-> <type name>, v |-> <payload>].  *)
(* A Python str is a sequence of one-character strings, so that split,     *)
(* replace, lower, the regular expressions and the number parsers are      *)
(* computed the way the code computes them.  A top-level dict (product,    *)
(* tile, meta) is a function from keys to values; insertion order is not   *)
(* modelled.  The outcome of a call is [exc |-> <exception name or         *)
(* "none">, ...] with the values the call returns or leaves behind.        *)
(***************************************************************************)
EXTENDS Integers, Sequences, FiniteSets, TLC

VARIABLES
    op,        \* the operation that produced this state ("input" initially)
    metadata,  \* the XML document handed to metadata_to_dict
    product,   \* the product dict (metadata_to_dict's result, tile_metadata's argument)
    tile,      \* the tile dict handed to the last tile_metadata call, as the call left it
    meta,      \* the value the last call returned (None_ when it raised)
    raised,    \* [exc, key]: the exception the last call raised, exc = "none" if it returned
    args,      \* the arguments of the last call as they were when it started
    grid,      \* the local variable `grid` of the last tile_metadata call
    calls,     \* number of tile_metadata calls made on this product record
    succeeded, \* number of those calls that returned
    geojson    \* the geometry dict handed to to_latlon, as the call left it

vars == <<op, metadata, product, tile, meta, raised, args, grid, calls, succeeded, geojson>>

-----------------------------------------------------------------------------
(* Bounds of the model *)

MaxChildren == 2   \* children of Product_Organisation
MaxGranules == 2   \* Granules elements below one child
MaxBands == 2      \* children of Band_List
MaxCalls == 3      \* tile_metadata calls sharing one product record
MaxCoords == 2     \* members of one level of a coordinates structure

-----------------------------------------------------------------------------
(* Python values *)

None_ == [t |-> "NoneType", v |-> <<>>]
PyStr(s) == [t |-> "str", v |-> s]
PyInt(n) == [t |-> "int", v |-> n]
PyFloat(n) == [t |-> "float", v |-> n]
PyList(items) == [t |-> "list", v |-> items]
PyTuple(items) == [t |-> "tuple", v |-> items]
PyDict(f) == [t |-> "dict", v |-> f]

EmptyDict == [k \in {} |-> None_]
DictSet(d, k, x) == [j \in DOMAIN d \cup {k} |-> IF j = k THEN x ELSE d[j]]
DictDel(d, k) == [j \in DOMAIN d \ {k} |-> d[j]]
\* dict.update(other): the keys of other override
DictUpdate(d, other) == [j \in DOMAIN d \cup DOMAIN other |-> IF j \in DOMAIN other THEN other[j] ELSE d[j]]

\* key names the key or index a lookup failed on
NoExc == [exc |-> "none", key |-> ""]
Exc(name, key) == [exc |-> name, key |-> key]

-----------------------------------------------------------------------------
(* Characters and the str methods the code uses *)

UpperSeq ==
    <<"A","B","C","D","E","F","G","H","I","J","K","L","M","N","O","P","Q","R","S","T","U","V","W","X","Y","Z">>
LowerSeq ==
    <<"a","b","c","d","e","f","g","h","i","j","k","l","m","n","o","p","q","r","s","t","u","v","w","x","y","z">>
DigitSeq ==
    <<"0","1","2","3","4","5","6","7","8","9">>

IsUpper(c) == \E i \in DOMAIN UpperSeq : UpperSeq[i] = c
IsLower(c) == \E i \in DOMAIN LowerSeq : LowerSeq[i] = c
IsDigit(c) == \E i \in DOMAIN DigitSeq : DigitSeq[i] = c
DigitVal(c) == (CHOOSE i \in DOMAIN DigitSeq : DigitSeq[i] = c) - 1
LowerChar(c) == IF IsUpper(c) THEN LowerSeq[CHOOSE i \in DOMAIN UpperSeq : UpperSeq[i] = c] ELSE c

\* str.lower()
lower(s) == [i \in DOMAIN s |-> LowerChar(s[i])]

\* str.replace(c, '')
remove_char(s, c) == SelectSeq(s, LAMBDA x : x # c)

\* str.split(sep) for a one-character separator: every segment, empty ones included
RECURSIVE split(_, _)
split(s, sep) ==
    IF \A i \in DOMAIN s : s[i] # sep
    THEN <<s>>
    ELSE LET i == CHOOSE i \in DOMAIN s : s[i] = sep /\ \A j \in 1..(i - 1) : s[j] # sep
         IN  <<SubSeq(s, 1, i - 1)>> \o split(SubSeq(s, i + 1, Len(s)), sep)

\* str(n) for n >= 0
RECURSIVE str_of_int(_)
str_of_int(n) ==
    IF n < 10 THEN <<DigitSeq[n + 1]>> ELSE str_of_int(n \div 10) \o <<DigitSeq[(n % 10) + 1]>>

\* the value of a string of decimal digits
RECURSIVE digits_value(_)
digits_value(s) ==
    IF s = <<>> THEN 0 ELSE 10 * digits_value(SubSeq(s, 1, Len(s) - 1)) + DigitVal(s[Len(s)])

AllDigits(s) == s # <<>> /\ \A i \in DOMAIN s : IsDigit(s[i])

\* int(x): a str of decimal digits parses, another str is a ValueError, None a TypeError
py_int(x) ==
    IF x.t = "int" THEN [exc |-> "none", ret |-> x]
    ELSE IF x.t # "str" THEN [exc |-> "TypeError", ret |-> None_]
    ELSE IF AllDigits(x.v) THEN [exc |-> "none", ret |-> PyInt(digits_value(x.v))]
    ELSE [exc |-> "ValueError", ret |-> None_]

\* float(x) on decimal notation "ddd" or "ddd.ddd": the value is kept as
\* <<digits without the point, number of digits after the point>>, trailing zeros dropped
RECURSIVE float_norm(_, _)
float_norm(m, e) == IF e > 0 /\ m % 10 = 0 THEN float_norm(m \div 10, e - 1) ELSE <<m, e>>

py_float(x) ==
    IF x.t # "str" THEN [exc |-> "TypeError", ret |-> None_]
    ELSE LET parts == split(x.v, ".")
         IN  IF Len(parts) = 1 /\ AllDigits(parts[1])
             THEN [exc |-> "none", ret |-> PyFloat(<<digits_value(parts[1]), 0>>)]
             ELSE IF Len(parts) = 2 /\ AllDigits(parts[1] \o parts[2])
             THEN [exc |-> "none",
                   ret |-> PyFloat(float_norm(digits_value(parts[1] \o parts[2]), Len(parts[2])))]
             ELSE [exc |-> "ValueError", ret |-> None_]

\* wordpad.pad(value, width): str(value) right-justified in width, filled with '0'
RECURSIVE zero_fill(_, _)
zero_fill(s, width) == IF Len(s) >= width THEN s ELSE zero_fill(<<"0">> \o s, width)

pad(value, width) ==
    zero_fill(IF value.t = "int" THEN str_of_int(value.v) ELSE value.v, width)

-----------------------------------------------------------------------------
(* Key Extractor: metadata_to_dict and get_tiles_list *)

SPACECRAFT_NAME ==
    <<"S","P","A","C","E","C","R","A","F","T","_","N","A","M","E">>
PRODUCT_STOP_TIME ==
    <<"P","R","O","D","U","C","T","_","S","T","O","P","_","T","I","M","E">>
Cloud_Coverage_Assessment ==
    <<"C","l","o","u","d","_","C","o","v","e","r","a","g","e","_","A","s","s","e","s","s","m","e","n","t">>
PROCESSING_LEVEL ==
    <<"P","R","O","C","E","S","S","I","N","G","_","L","E","V","E","L">>
PRODUCT_TYPE ==
    <<"P","R","O","D","U","C","T","_","T","Y","P","E">>
PROCESSING_BASELINE ==
    <<"P","R","O","C","E","S","S","I","N","G","_","B","A","S","E","L","I","N","E">>
SENSING_ORBIT_NUMBER ==
    <<"S","E","N","S","I","N","G","_","O","R","B","I","T","_","N","U","M","B","E","R">>
SENSING_ORBIT_DIRECTION ==
    <<"S","E","N","S","I","N","G","_","O","R","B","I","T","_","D","I","R","E","C","T","I","O","N">>
PRODUCT_FORMAT ==
    <<"P","R","O","D","U","C","T","_","F","O","R","M","A","T">>

\* the list `keys` of metadata_to_dict
keys ==
    <<SPACECRAFT_NAME, PRODUCT_STOP_TIME, Cloud_Coverage_Assessment, PROCESSING_LEVEL, PRODUCT_TYPE,
      PROCESSING_BASELINE, SENSING_ORBIT_NUMBER, SENSING_ORBIT_DIRECTION, PRODUCT_FORMAT>>

k_cloud_coverage_assessment ==
    <<"c","l","o","u","d","_","c","o","v","e","r","a","g","e","_","a","s","s","e","s","s","m","e","n","t">>
k_product_cloud_coverage_assessment ==
    <<"p","r","o","d","u","c","t","_","c","l","o","u","d","_","c","o","v","e","r","a","g","e","_","a","s","s","e","s","s","m","e","n","t">>
k_sensing_orbit_number ==
    <<"s","e","n","s","i","n","g","_","o","r","b","i","t","_","n","u","m","b","e","r">>
k_tiles ==
    <<"t","i","l","e","s">>
k_band_list ==
    <<"b","a","n","d","_","l","i","s","t">>

\* The document: elems maps each scalar element present in the tree to the text of
\* its first occurrence; Product_Organisation and Band_List are the lists
\* root.findall('.//<name>') returns.  A Product_Organisation element is the
\* sequence of its children, a child the sequence of the granuleIdentifier
\* attributes of the Granules elements below it; a Band_List element is the
\* sequence of its children's texts.

\* for key in keys: meta[key.lower()] = first element's text, None on IndexError
grab_keys(md) ==
    [lk \in {lower(keys[i]) : i \in DOMAIN keys} |->
        LET key == keys[CHOOSE i \in DOMAIN keys : lower(keys[i]) = lk]
        IN  IF key \in DOMAIN md.elems THEN PyStr(md.elems[key]) ELSE None_]

\* mgs = name.split('_')[-2]
mgs_last(name) ==
    LET name_parts == split(name, "_")
    IN  IF Len(name_parts) < 1
        THEN [exc |-> "IndexError", ret |-> <<>>]
        ELSE [exc |-> "none", ret |-> name_parts[Len(name_parts)]]

mgs_of(name) ==
    LET name_parts == split(name, "_")
    IN  IF Len(name_parts) < 2
        THEN [exc |-> "IndexError", ret |-> <<>>]
        ELSE [exc |-> "none", ret |-> name_parts[Len(name_parts) - 1]]

\* the loop of get_tiles_list from child i on, tiles being the dict built so far
RECURSIVE tiles_loop(_, _, _)
tiles_loop(element, i, tiles) ==
    IF i > Len(element) THEN [exc |-> "none", ret |-> tiles]
    ELSE IF element[i] = <<>> THEN [exc |-> "IndexError", ret |-> EmptyDict]
    ELSE LET name == element[i][1]
             mgs == mgs_of(name)
         IN  IF mgs.exc # "none" THEN [exc |-> mgs.exc, ret |-> EmptyDict]
             ELSE tiles_loop(element, i + 1, DictSet(tiles, mgs.ret, PyStr(name)))

get_tiles_list(element) == tiles_loop(element, 1, EmptyDict)

B_ == <<"B">>

\* one pass of the band loop
band_name(text) ==
    LET band == remove_char(text, "B")
    IN  IF Len(band) = 1 THEN B_ \o pad(PyStr(band), 2) ELSE text

band_list_of(bands) == [i \in DOMAIN bands |-> PyStr(band_name(bands[i]))]

\* metadata_to_dict of src/sentinel_s3/converter.py
metadata_to_dict(md) ==
    LET meta1 == grab_keys(md)
        Fail(e) == [exc |-> e, ret |-> EmptyDict]
    IN  IF k_cloud_coverage_assessment \notin DOMAIN meta1 THEN Fail("KeyError")
        ELSE LET cloud == py_float(meta1[k_cloud_coverage_assessment])
        IN  IF cloud.exc # "none" THEN Fail(cloud.exc)
        ELSE LET meta2 == DictSet(DictDel(meta1, k_cloud_coverage_assessment),
                                  k_product_cloud_coverage_assessment, cloud.ret)
        IN  IF k_sensing_orbit_number \notin DOMAIN meta2 THEN Fail("KeyError")
        ELSE LET orbit == py_int(meta2[k_sensing_orbit_number])
        IN  IF orbit.exc # "none" THEN Fail(orbit.exc)
        ELSE LET meta3 == DictSet(meta2, k_sensing_orbit_number, orbit.ret)
        IN  IF md.Product_Organisation = <<>> THEN Fail("IndexError")
        ELSE LET tiles == get_tiles_list(md.Product_Organisation[1])
        IN  IF tiles.exc # "none" THEN Fail(tiles.exc)
        ELSE IF md.Band_List = <<>> THEN Fail("IndexError")
        ELSE [exc |-> "none",
              ret |-> DictSet(DictSet(meta3, k_tiles, PyDict(tiles.ret)),
                              k_band_list, PyList(band_list_of(md.Band_List[1])))]

-----------------------------------------------------------------------------
(* Documents handed to metadata_to_dict *)

SeqsUpTo(S, n) == UNION {[1..k -> S] : k \in 0..n}

text_spacecraft ==
    <<"S","e","n","t","i","n","e","l","-","2","A">>
text_stop_time ==
    <<"2","0","1","6","-","0","1","-","0","1","T","1","0",":","2","0",":","2","3",".","4","5","6","Z">>
text_level ==
    <<"L","e","v","e","l","-","1","C">>
text_type ==
    <<"S","2","M","S","I","1","C">>
text_baseline ==
    <<"0","2",".","0","1">>
text_direction ==
    <<"D","E","S","C","E","N","D","I","N","G">>
text_format ==
    <<"S","A","F","E">>
text_cloud ==
    <<"1","2",".","5">>
text_cloud_na ==
    <<"N","/","A">>
text_orbit ==
    <<"2","2">>
text_orbit_bad ==
    <<"2","2","a">>

CloudTexts == {text_cloud, text_cloud_na, <<"7">>}
OrbitTexts == {text_orbit, text_orbit_bad}

\* a document with every scalar element present
ElemsWith(cloud, orbit) ==
    (SPACECRAFT_NAME :> text_spacecraft) @@ (PRODUCT_STOP_TIME :> text_stop_time)
    @@ (Cloud_Coverage_Assessment :> cloud) @@ (PROCESSING_LEVEL :> text_level)
    @@ (PRODUCT_TYPE :> text_type) @@ (PROCESSING_BASELINE :> text_baseline)
    @@ (SENSING_ORBIT_NUMBER :> orbit) @@ (SENSING_ORBIT_DIRECTION :> text_direction)
    @@ (PRODUCT_FORMAT :> text_format)

Restrict(f, S) == [x \in S |-> f[x]]

\* granule identifiers: two of the product's real form (the same tile T32TQM twice,
\* and tile T05TQM), and the four-segment identifier of the specification's scenario
GranuleA ==
    <<"S","2","A","_","O","P","E","R","_","M","S","I","_","L","1","C","_","T","L","_","S","G","S","_","_","2","0","1","6","0","1","0","1","T","1","0","2","0","2","3","_","A","0","0","2","7","0","1","_","T","3","2","T","Q","M","_","N","0","2",".","0","1">>
GranuleB ==
    <<"S","2","A","_","O","P","E","R","_","M","S","I","_","L","1","C","_","T","L","_","M","T","I","_","_","2","0","1","6","0","1","0","2","T","1","0","2","0","2","3","_","A","0","0","2","7","0","2","_","T","3","2","T","Q","M","_","N","0","2",".","0","1">>
GranuleC ==
    <<"S","2","A","_","O","P","E","R","_","M","S","I","_","L","1","C","_","T","L","_","S","G","S","_","_","2","0","1","6","0","1","0","1","T","1","0","2","0","2","3","_","A","0","0","2","7","0","1","_","T","0","5","T","Q","M","_","N","0","2",".","0","1">>
GranuleSpec ==
    <<"L","1","C","_","T","3","2","T","Q","M","_","A","0","0","2","7","0","1","_","2","0","1","6","0","1","0","1","T","1","0","2","0","2","3">>
T32TQM ==
    <<"T","3","2","T","Q","M">>
T05TQM ==
    <<"T","0","5","T","Q","M">>

GranuleIds == {GranuleA, GranuleB, GranuleSpec}

\* a child of Product_Organisation: no Granules element, or a first one with any
\* identifier followed by up to MaxGranules - 1 more
Children ==
    {<<>>} \cup {<<g>> \o more : g \in GranuleIds, more \in SeqsUpTo({GranuleC}, MaxGranules - 1)}
\* the Product_Organisation elements
Organisations == SeqsUpTo(Children, MaxChildren)
BaseOrganisation == <<<<GranuleA>>, <<GranuleC>>>>

BandTexts == {<<"B","4">>, <<"B","1","0">>, <<"B","8","A">>, <<"B","A">>, <<"B","B","5">>}
BandLists == SeqsUpTo(BandTexts, MaxBands)
BaseBands == <<<<"B","4">>, <<"B","8","A">>>>

Document(elems, po, bl) == [elems |-> elems, Product_Organisation |-> po, Band_List |-> bl]

\* every set of scalar elements present, with well- and ill-formed numbers
DocsScalars ==
    {Document(Restrict(ElemsWith(c, o), P), <<BaseOrganisation>>, <<BaseBands>>) :
        c \in CloudTexts, o \in OrbitTexts, P \in SUBSET {keys[i] : i \in DOMAIN keys}}
\* every Product_Organisation, or none
DocsTiles ==
    {Document(ElemsWith(text_cloud, text_orbit), po, <<BaseBands>>) :
        po \in {<<>>} \cup {<<e>> : e \in Organisations}}
\* every Band_List, or none
DocsBands ==
    {Document(ElemsWith(text_cloud, text_orbit), <<BaseOrganisation>>, bl) :
        bl \in {<<>>} \cup {<<b>> : b \in BandLists}}

NoDocument == Document(EmptyDict, <<>>, <<>>)

-----------------------------------------------------------------------------
(* The Key Extractor as a state machine: a document, then metadata_to_dict *)

IdleAssembler == tile = EmptyDict /\ grid = <<>> /\ calls = 0 /\ succeeded = 0

InitExtract ==
    /\ op = "input"
    /\ metadata \in DocsScalars \cup DocsTiles \cup DocsBands
    /\ product = EmptyDict
    /\ geojson = EmptyDict
    /\ args = [metadata |-> metadata]
    /\ meta = None_ /\ raised = NoExc
    /\ IdleAssembler

MetadataToDict ==
    /\ op = "input"
    /\ metadata # NoDocument
    /\ LET r == metadata_to_dict(metadata)
       IN  /\ product' = r.ret
           /\ raised' = Exc(r.exc, "")
    /\ op' = "metadata_to_dict"
    /\ UNCHANGED <<metadata, tile, meta, args, grid, calls, succeeded, geojson>>

NextExtract == MetadataToDict

SpecExtract == InitExtract /\ [][NextExtract]_vars

-----------------------------------------------------------------------------
(* Properties of the Key Extractor *)

Returned(name) == op = name /\ raised.exc = "none"

A002701 ==
    <<"A","0","0","2","7","0","1">>

\* the segment between the last two '_' of an identifier, stated on the positions of
\* the separators (an identifier with no '_' has none)
HasTwoSegments(g) == \E j \in DOMAIN g : g[j] = "_"
SecondToLastSegment(g) ==
    LET j == CHOOSE j \in DOMAIN g : g[j] = "_" /\ \A m \in (j + 1)..Len(g) : g[m] # "_"
        before == {i \in 1..(j - 1) : g[i] = "_"}
        i == IF before = {} THEN 0 ELSE CHOOSE i \in before : \A m \in before : m <= i
    IN  SubSeq(g, i + 1, j - 1)

\* the segment of an identifier that has the form of a grid code: T, two digits, three capitals
IsGridCode(seg) ==
    /\ Len(seg) = 6 /\ seg[1] = "T" /\ IsDigit(seg[2]) /\ IsDigit(seg[3])
    /\ IsUpper(seg[4]) /\ IsUpper(seg[5]) /\ IsUpper(seg[6])
GridCodeOf(g) ==
    LET parts == split(g, "_") IN parts[CHOOSE i \in DOMAIN parts : IsGridCode(parts[i])]

TheOrganisation == metadata.Product_Organisation[1]

ScalarsWellFormed(md) ==
    /\ Cloud_Coverage_Assessment \in DOMAIN md.elems => md.elems[Cloud_Coverage_Assessment] # text_cloud_na
    /\ SENSING_ORBIT_NUMBER \in DOMAIN md.elems => md.elems[SENSING_ORBIT_NUMBER] # text_orbit_bad

\* the output field of a scalar element
FieldOf(key) ==
    IF key = Cloud_Coverage_Assessment THEN k_product_cloud_coverage_assessment ELSE lower(key)

\* C2 as stated: with both containers present (and the numbers that are present
\* well-formed), an absent scalar element never makes metadata_to_dict fail, and its
\* field is null in the returned record
C2_AbsentScalarIsNull ==
    (/\ op = "metadata_to_dict"
     /\ metadata.Product_Organisation = <<BaseOrganisation>>
     /\ metadata.Band_List = <<BaseBands>>
     /\ ScalarsWellFormed(metadata))
    => /\ raised.exc = "none"
       /\ \A i \in DOMAIN keys :
             keys[i] \notin DOMAIN metadata.elems
             => FieldOf(keys[i]) \in DOMAIN product /\ product[FieldOf(keys[i])] = None_

\* what C3 says a Band_List text becomes
C3_Expected(t) ==
    IF Len(t) = 2 /\ t[1] = "B" /\ IsDigit(t[2]) THEN <<"B", "0", t[2]>> ELSE t

\* C3 as stated: one entry per Band_List child, in document order; B + one digit
\* is zero-padded and every other text is kept
C3_BandListNormalised ==
    Returned("metadata_to_dict") =>
        LET bands == metadata.Band_List[1]
            band_list == product[k_band_list].v
        IN  /\ Len(band_list) = Len(bands)
            /\ \A i \in DOMAIN bands : band_list[i] = PyStr(C3_Expected(bands[i]))

-----------------------------------------------------------------------------
(* Geometry: epsg_code, convert_coordinates, to_latlon *)

EPSG ==
    <<"E","P","S","G">>
urn_wgs84 ==
    <<"u","r","n",":","o","g","c",":","d","e","f",":","c","r","s",":","E","P","S","G",":","8",".","9",":","4","3","2","6">>
urn_utm32 ==
    <<"u","r","n",":","o","g","c",":","d","e","f",":","c","r","s",":","E","P","S","G",":","8",".","8",".","1",":","3","2","6","3","2">>
urn_crs84 ==
    <<"u","r","n",":","o","g","c",":","d","e","f",":","c","r","s",":","O","G","C",":","1",".","3",":","C","R","S","8","4">>
urn_epsg_named ==
    <<"u","r","n",":","o","g","c",":","d","e","f",":","c","r","s",":","E","P","S","G",":",":","W","G","S","8","4">>

\* Python truth value
Truthy(x) ==
    CASE x.t = "NoneType" -> FALSE
      [] x.t \in {"int", "float"} -> x.v # 0
      [] x.t = "dict" -> DOMAIN x.v # {}
      [] OTHER -> x.v # <<>>

IsSequence(x) == x.t \in {"list", "tuple"}
IsNumber(x) == x.t \in {"int", "float"}

\* epsg_code(geojson): [exc, ret]; the three subscripts of line 22 raise on a crs
\* that is no dict or lacks the key
epsg_code(g) ==
    LET Ret(x) == [exc |-> "none", key |-> "", ret |-> x]
        Raise(e, k) == [exc |-> e, key |-> k, ret |-> None_]
    IN  IF g.t # "dict" \/ "crs" \notin DOMAIN g.v THEN Ret(None_)
        ELSE LET crs == g.v["crs"]
        IN  IF crs.t # "dict" THEN Raise("TypeError", "properties")
        ELSE IF "properties" \notin DOMAIN crs.v THEN Raise("KeyError", "properties")
        ELSE LET properties == crs.v["properties"]
        IN  IF properties.t # "dict" THEN Raise("TypeError", "name")
        ELSE IF "name" \notin DOMAIN properties.v THEN Raise("KeyError", "name")
        ELSE IF properties.v["name"].t # "str" THEN Raise("AttributeError", "split")
        ELSE LET urn == split(properties.v["name"].v, ":")
        IN  IF \E i \in DOMAIN urn : urn[i] = EPSG
            THEN LET code == py_int(PyStr(urn[Len(urn)]))
                 IN  IF code.exc = "none" THEN Ret(code.ret) ELSE Ret(None_)
            ELSE Ret(None_)

\* pyproj.transform(origin, wgs84, x, y[, z]) is outside the repository: a fixed map
\* of numbers, the identity from EPSG:4326 to itself, returning floats; it needs two
\* or three numbers
transform_number(origin, n) == IF origin = 4326 THEN n ELSE n + origin
transform(origin, coords) ==
    IF Len(coords) \in {2, 3} /\ \A i \in DOMAIN coords : IsNumber(coords[i])
    THEN [exc |-> "none", ret |-> [i \in DOMAIN coords |-> PyFloat(transform_number(origin, coords[i].v))]]
    ELSE [exc |-> "TypeError", ret |-> <<>>]

\* convert_coordinates(coords, origin, wgs84): [exc, ret].  Only the IndexError of
\* coords[0] is caught; list(c) of a member that is no sequence is a TypeError
RECURSIVE convert_coordinates(_, _)
RECURSIVE convert_members(_, _, _)
convert_members(members, i, origin) ==
    IF i > Len(members) THEN [exc |-> "none", ret |-> <<>>]
    ELSE IF ~IsSequence(members[i]) THEN [exc |-> "TypeError", ret |-> <<>>]
    ELSE LET c == convert_coordinates(PyList(members[i].v), origin)
         IN  IF c.exc # "none" THEN [exc |-> c.exc, ret |-> <<>>]
             ELSE LET rest == convert_members(members, i + 1, origin)
                  IN  IF rest.exc # "none" THEN rest
                      ELSE [exc |-> "none", ret |-> <<c.ret>> \o rest.ret]

convert_coordinates(coords, origin) ==
    IF ~IsSequence(coords) THEN [exc |-> "none", ret |-> None_]
    ELSE IF coords.v = <<>> THEN [exc |-> "none", ret |-> None_]
    ELSE IF IsSequence(coords.v[1])
    THEN LET all == convert_members(coords.v, 1, origin)
         IN  IF all.exc # "none" THEN [exc |-> all.exc, ret |-> None_]
             ELSE [exc |-> "none", ret |-> PyList(all.ret)]
    ELSE IF coords.v[1].t = "float"
    THEN LET t == transform(origin, coords.v)
         IN  IF t.exc # "none" THEN [exc |-> t.exc, ret |-> None_]
             ELSE [exc |-> "none", ret |-> PyList(t.ret)]
    ELSE [exc |-> "none", ret |-> None_]

Crs(name) == PyDict(("type" :> PyStr(<<"n","a","m","e">>)) @@ ("properties" :> PyDict("name" :> PyStr(name))))

\* to_latlon(geojson, origin_espg): [exc, key, geojson], geojson being the argument
\* as the call leaves it (the dict is changed in place and returned)
to_latlon(g, origin_espg) ==
    LET Out(e, k, x) == [exc |-> e, key |-> k, geojson |-> x]
    IN  IF g.t # "dict" THEN Out("none", "", g)
        ELSE LET code == IF Truthy(origin_espg)
                         THEN [exc |-> "none", key |-> "", ret |-> origin_espg]
                         ELSE epsg_code(g)
        IN  IF code.exc # "none" THEN Out(code.exc, code.key, g)
        ELSE IF ~Truthy(code.ret) THEN Out("none", "", g)
        ELSE IF "coordinates" \notin DOMAIN g.v THEN Out("KeyError", "coordinates", g)
        ELSE LET new_coords == convert_coordinates(g.v["coordinates"], code.ret.v)
        IN  IF new_coords.exc # "none" THEN Out(new_coords.exc, "", g)
        ELSE IF ~Truthy(new_coords.ret) THEN Out("none", "", g)
        ELSE LET g1 == DictSet(g.v, "coordinates", new_coords.ret)
        IN  IF "crs" \notin DOMAIN g1 THEN Out("none", "", PyDict(DictSet(g1, "crs", Crs(urn_wgs84))))
        ELSE IF g1["crs"].t # "dict" THEN Out("TypeError", "properties", PyDict(g1))
        ELSE IF "properties" \notin DOMAIN g1["crs"].v THEN Out("KeyError", "properties", PyDict(g1))
        ELSE IF g1["crs"].v["properties"].t # "dict" THEN Out("TypeError", "name", PyDict(g1))
        ELSE Out("none", "",
                 PyDict(DictSet(g1, "crs",
                     PyDict(DictSet(g1["crs"].v, "properties",
                         PyDict(DictSet(g1["crs"].v["properties"].v, "name", PyStr(urn_wgs84))))))))

-----------------------------------------------------------------------------
(* Geometry objects handed to to_latlon *)

\* innermost sequences: a float pair as a list and as a tuple (shapely's mapping
\* yields tuples), an integer pair, a pair that starts with a float
Pairs ==
    {PyList(<<PyFloat(600000), PyFloat(5100000)>>), PyTuple(<<PyFloat(600000), PyFloat(5100000)>>),
     PyList(<<PyInt(600000), PyInt(5100000)>>), PyList(<<PyFloat(600000), PyInt(5100000)>>)}
\* members of a sequence of positions: a pair, an empty sequence, a bare number
Members == Pairs \cup {PyList(<<>>), PyFloat(600000)}
Lines ==
    {PyList(s) : s \in SeqsUpTo(Members, MaxCoords) \ {<<>>}}
    \cup {PyTuple(s) : s \in SeqsUpTo(Members, MaxCoords) \ {<<>>}}
Rings == {PyList(<<l>>) : l \in Lines}
CoordinateInputs == Pairs \cup {PyList(<<>>)} \cup Lines \cup Rings

CrsNoProperties == PyDict("type" :> PyStr(<<"n","a","m","e">>))
CrsNoName == PyDict(("type" :> PyStr(<<"n","a","m","e">>)) @@ ("properties" :> PyDict(EmptyDict)))
CrsTags ==
    {Crs(urn_utm32), Crs(urn_wgs84), Crs(urn_crs84), Crs(urn_epsg_named),
     CrsNoProperties, CrsNoName, None_}

Geometry(coords) == ("type" :> PyStr(<<"P","o","l","y","g","o","n">>)) @@ ("coordinates" :> coords)
GeoInputs ==
    {PyDict(Geometry(c)) : c \in CoordinateInputs}
    \cup {PyDict(DictSet(Geometry(c), "crs", crs)) : c \in CoordinateInputs, crs \in CrsTags}
\* origin_espg: not given, or the tile's UTM zone as get_tile_geometry passes it
Origins == {None_, PyInt(32632)}

-----------------------------------------------------------------------------
(* The Geometry Resolver's reprojection as a state machine: a geometry, then to_latlon *)

InitGeo ==
    /\ op = "input"
    /\ geojson \in GeoInputs
    /\ \E o \in Origins : args = [geojson |-> geojson, origin_espg |-> o]
    /\ metadata = NoDocument /\ product = EmptyDict
    /\ meta = None_ /\ raised = NoExc
    /\ IdleAssembler

ToLatLon ==
    /\ op = "input"
    /\ geojson # EmptyDict
    /\ LET r == to_latlon(args.geojson, args.origin_espg)
       IN  /\ geojson' = r.geojson
           /\ meta' = IF r.exc = "none" THEN r.geojson ELSE None_
           /\ raised' = Exc(r.exc, r.key)
    /\ op' = "to_latlon"
    /\ UNCHANGED <<metadata, product, tile, args, grid, calls, succeeded>>

NextGeo == ToLatLon

SpecGeo == InitGeo /\ [][NextGeo]_vars

-----------------------------------------------------------------------------
(* Properties of the reprojection *)

GivenCrs == IF "crs" \in DOMAIN args.geojson.v THEN args.geojson.v["crs"] ELSE None_
HasCrsTag == "crs" \in DOMAIN args.geojson.v

\* the source EPSG code is determinable: passed, or read from a well-formed crs tag
Determinable ==
    Truthy(args.origin_espg) \/ (HasCrsTag /\ GivenCrs \in {Crs(urn_utm32), Crs(urn_wgs84)})
OriginCode ==
    IF Truthy(args.origin_espg) THEN args.origin_espg.v
    ELSE IF GivenCrs = Crs(urn_utm32) THEN 32632 ELSE 4326

CrsName(g) ==
    IF /\ "crs" \in DOMAIN g.v /\ g.v["crs"].t = "dict"
       /\ "properties" \in DOMAIN g.v["crs"].v /\ g.v["crs"].v["properties"].t = "dict"
       /\ "name" \in DOMAIN g.v["crs"].v["properties"].v
    THEN g.v["crs"].v["properties"].v["name"]
    ELSE None_

AllNumbers(c) == \A i \in DOMAIN c.v : IsNumber(c.v[i])

\* nested non-empty sequences whose innermost ones are numeric pairs or triples
RECURSIVE WellFormed(_)
WellFormed(c) ==
    /\ IsSequence(c) /\ c.v # <<>>
    /\ IF AllNumbers(c) THEN Len(c.v) \in {2, 3} ELSE \A i \in DOMAIN c.v : WellFormed(c.v[i])

\* the recursive transform that keeps depth and the list or tuple at every level
RECURSIVE C7_Transformed(_, _)
C7_Transformed(c, origin) ==
    IF AllNumbers(c)
    THEN [t |-> c.t, v |-> [i \in DOMAIN c.v |-> PyFloat(transform_number(origin, c.v[i].v))]]
    ELSE [t |-> c.t, v |-> [i \in DOMAIN c.v |-> C7_Transformed(c.v[i], origin)]]

\* C7 as stated: after to_latlon returns for a geometry with a determinable EPSG
\* code, crs.properties.name is the WGS84 URN and coordinates is the recursive
\* transform of the original, same depth, same list/tuple structure, integer and
\* float pairs alike
C7_ReprojectedInPlace ==
    (Returned("to_latlon") /\ Determinable /\ WellFormed(args.geojson.v["coordinates"]))
    => /\ CrsName(geojson) = PyStr(urn_wgs84)
       /\ geojson.v["coordinates"] = C7_Transformed(args.geojson.v["coordinates"], OriginCode)

\* C8 as stated: with no EPSG code determinable (no origin code; no crs tag, a name
\* without an EPSG segment or with a non-integer last segment, or a crs tag lacking
\* properties or name) to_latlon does not raise and the geometry is as passed in
C8_UnresolvableCrsPassesThrough ==
    (/\ op = "to_latlon"
     /\ ~Truthy(args.origin_espg)
     /\ (~HasCrsTag \/ GivenCrs \in {Crs(urn_crs84), Crs(urn_epsg_named), CrsNoProperties, CrsNoName}))
    => raised.exc = "none" /\ geojson = args.geojson

\* a branch C9 calls malformed: no sequence, empty, or a sequence of non-float numbers
Offending(c) ==
    \/ ~IsSequence(c)
    \/ c.v = <<>>
    \/ (AllNumbers(c) /\ \A i \in DOMAIN c.v : c.v[i].t # "float")

\* r is o with null at exactly the offending branches and every other innermost
\* sequence transformed (a pair mixing floats and integers is left open)
RECURSIVE C9_NullAtOffending(_, _, _)
C9_NullAtOffending(o, r, origin) ==
    IF Offending(o) THEN r = None_
    ELSE IF AllNumbers(o)
    THEN (\A i \in DOMAIN o.v : o.v[i].t = "float")
         => r = PyList([i \in DOMAIN o.v |-> PyFloat(transform_number(origin, o.v[i].v))])
    ELSE /\ r.t = "list"
         /\ Len(r.v) = Len(o.v)
         /\ \A i \in DOMAIN o.v : C9_NullAtOffending(o.v[i], r.v[i], origin)

\* every sequence that starts with a float, and so is handed to pyproj.transform,
\* is a pair or triple of numbers: what is raised inside pyproj is left out of C9
RECURSIVE TransformAccepts(_)
TransformAccepts(c) ==
    IsSequence(c) /\ c.v # <<>>
    => IF c.v[1].t = "float" THEN Len(c.v) \in {2, 3} /\ AllNumbers(c)
       ELSE \A i \in DOMAIN c.v : TransformAccepts(c.v[i])

\* C9 as stated: on a malformed coordinate structure nothing is raised, the result
\* has null at exactly the offending branches, well-formed siblings are
\* transformed, and the enclosing to_latlon call completes
C9_MalformedBranchBecomesNull ==
    (/\ op = "to_latlon" /\ Determinable
     /\ (HasCrsTag => GivenCrs \in {Crs(urn_utm32), Crs(urn_wgs84)})
     /\ TransformAccepts(args.geojson.v["coordinates"]))
    => /\ raised.exc = "none"
       /\ LET o == args.geojson.v["coordinates"]
          IN  IF C9_NullAtOffending(o, None_, OriginCode)
              THEN geojson = args.geojson
              ELSE C9_NullAtOffending(o, geojson.v["coordinates"], OriginCode)

-----------------------------------------------------------------------------
(* Name Normalizer: camelcase_underscore *)

\* re.sub('(.)([A-Z][a-z]+)', r'\1_\2', name) from position i on: a match is any
\* character, a capital and the longest run of one or more small letters
RECURSIVE first_sub(_, _)
first_sub(name, i) ==
    IF i > Len(name) THEN <<>>
    ELSE IF i + 2 <= Len(name) /\ IsUpper(name[i + 1]) /\ IsLower(name[i + 2])
    THEN LET j == CHOOSE j \in (i + 2)..Len(name) :
                      /\ \A m \in (i + 2)..j : IsLower(name[m])
                      /\ (j = Len(name) \/ ~IsLower(name[j + 1]))
         IN  <<name[i], "_">> \o SubSeq(name, i + 1, j) \o first_sub(name, j + 1)
    ELSE <<name[i]>> \o first_sub(name, i + 1)

\* re.sub('([a-z0-9])([A-Z])', r'\1_\2', s1) from position i on
RECURSIVE second_sub(_, _)
second_sub(s1, i) ==
    IF i > Len(s1) THEN <<>>
    ELSE IF i + 1 <= Len(s1) /\ (IsLower(s1[i]) \/ IsDigit(s1[i])) /\ IsUpper(s1[i + 1])
    THEN <<s1[i], "_", s1[i + 1]>> \o second_sub(s1, i + 2)
    ELSE <<s1[i]>> \o second_sub(s1, i + 1)

camelcase_underscore(name) == lower(second_sub(first_sub(name, 1), 1))

-----------------------------------------------------------------------------
(* Tile Metadata Assembler: tile_metadata of both modules *)

k_tile_name ==
    <<"t","i","l","e","_","n","a","m","e">>
k_date ==
    <<"d","a","t","e">>
k_thumbnail ==
    <<"t","h","u","m","b","n","a","i","l">>
k_path ==
    <<"p","a","t","h">>
k_timestamp ==
    <<"t","i","m","e","s","t","a","m","p">>
k_utmZone ==
    <<"u","t","m","Z","o","n","e">>
k_latitudeBand ==
    <<"l","a","t","i","t","u","d","e","B","a","n","d">>
k_gridSquare ==
    <<"g","r","i","d","S","q","u","a","r","e">>
k_datastrip ==
    <<"d","a","t","a","s","t","r","i","p">>
k_download_links ==
    <<"d","o","w","n","l","o","a","d","_","l","i","n","k","s">>
k_aws_s3 ==
    <<"a","w","s","_","s","3">>
k_tile_origin ==
    <<"t","i","l","e","_","o","r","i","g","i","n">>
k_tile_geometry ==
    <<"t","i","l","e","_","g","e","o","m","e","t","r","y">>
k_tile_data_geometry ==
    <<"t","i","l","e","_","d","a","t","a","_","g","e","o","m","e","t","r","y">>
s3_url ==
    <<"h","t","t","p",":","/","/","s","e","n","t","i","n","e","l","-","s","2","-","l","1","c",".","s","3",".","a","m","a","z","o","n","a","w","s",".","c","o","m">>

\* '{0}'.format(x): str(x)
format(x) == IF x.t = "int" THEN str_of_int(x.v) ELSE x.v

\* grid = 'T{0}{1}{2}'.format(pad(tile['utmZone'], 2), tile['latitudeBand'], tile['gridSquare'])
grid_code(t) ==
    <<"T">> \o pad(t[k_utmZone], 2) \o format(t[k_latitudeBand]) \o format(t[k_gridSquare])

\* grid = 'T{0}{1}{2}'.format(tile['utmZone'], tile['latitudeBand'], tile['gridSquare'])
scrawler_grid_code(t) ==
    <<"T">> \o format(t[k_utmZone]) \o format(t[k_latitudeBand]) \o format(t[k_gridSquare])

\* meta['thumbnail'] = '{1}/{0}/preview.jp2'.format(tile['path'], s3_url)
thumbnail_url(path) == s3_url \o <<"/">> \o path \o <<"/","p","r","e","v","i","e","w",".","j","p","2">>

\* one download link, '{2}/{0}/{1}.jp2'.format(meta['path'], b, s3_url)
download_link_swapped(path, b) == s3_url \o <<"/">> \o b \o <<"/">> \o path \o <<".","j","p","2">>

download_link(path, b) == s3_url \o <<"/">> \o path \o <<"/">> \o b \o <<".","j","p","2">>

\* "remove unnecessary keys": product.pop('tiles'); tile.pop('datastrip');
\* bands = product.pop('band_list'), each a KeyError on an absent key, what was
\* popped before staying popped
remove_keys_tiles_kept(t, p) ==
    IF k_datastrip \notin DOMAIN t
    THEN [exc |-> "KeyError", key |-> "datastrip", tile |-> t, product |-> p, bands |-> None_]
    ELSE IF k_band_list \notin DOMAIN p
    THEN [exc |-> "KeyError", key |-> "band_list", tile |-> DictDel(t, k_datastrip),
          product |-> p, bands |-> None_]
    ELSE [exc |-> "none", key |-> "", tile |-> DictDel(t, k_datastrip),
          product |-> DictDel(p, k_band_list), bands |-> p[k_band_list]]

remove_keys_datastrip_first(t, p) ==
    IF k_datastrip \notin DOMAIN t
    THEN [exc |-> "KeyError", key |-> "datastrip", tile |-> t, product |-> p, bands |-> None_]
    ELSE IF k_tiles \notin DOMAIN p
    THEN [exc |-> "KeyError", key |-> "tiles", tile |-> DictDel(t, k_datastrip),
          product |-> p, bands |-> None_]
    ELSE IF k_band_list \notin DOMAIN p
    THEN [exc |-> "KeyError", key |-> "band_list", tile |-> DictDel(t, k_datastrip),
          product |-> DictDel(p, k_tiles), bands |-> None_]
    ELSE [exc |-> "none", key |-> "", tile |-> DictDel(t, k_datastrip),
          product |-> DictDel(DictDel(p, k_tiles), k_band_list), bands |-> p[k_band_list]]

remove_unnecessary_keys(t, p) ==
    IF k_tiles \notin DOMAIN p
    THEN [exc |-> "KeyError", key |-> "tiles", tile |-> t, product |-> p, bands |-> None_]
    ELSE IF k_datastrip \notin DOMAIN t
    THEN [exc |-> "KeyError", key |-> "datastrip", tile |-> t,
          product |-> DictDel(p, k_tiles), bands |-> None_]
    ELSE IF k_band_list \notin DOMAIN p
    THEN [exc |-> "KeyError", key |-> "band_list", tile |-> DictDel(t, k_datastrip),
          product |-> DictDel(p, k_tiles), bands |-> None_]
    ELSE [exc |-> "none", key |-> "", tile |-> DictDel(t, k_datastrip),
          product |-> DictDel(DictDel(p, k_tiles), k_band_list), bands |-> p[k_band_list]]

\* for k, v in iteritems(tile): meta[camelcase_underscore(k)] = v
renamed(t) ==
    [u \in {camelcase_underscore(k) : k \in DOMAIN t} |->
        t[CHOOSE k \in DOMAIN t : camelcase_underscore(k) = u]]

\* the list `keys` of tile_metadata
geometry_keys == <<k_tile_origin, k_tile_geometry, k_tile_data_geometry>>

\* for key in keys: if key in meta: meta[key] = to_latlon(meta[key]), from key i on.
\* The geometry is the tile's own object, so the tile sees what to_latlon changes.
RECURSIVE reproject_geometries(_, _, _, _)
reproject_geometries(m, t, p, i) ==
    IF i > Len(geometry_keys) THEN [exc |-> "none", key |-> "", meta |-> m, tile |-> t]
    ELSE IF geometry_keys[i] \notin DOMAIN m THEN reproject_geometries(m, t, p, i + 1)
    ELSE LET key == geometry_keys[i]
             r == to_latlon(m[key], None_)
             shared == {k \in DOMAIN t : camelcase_underscore(k) = key /\ key \notin DOMAIN p}
             tile1 == [k \in DOMAIN t |-> IF k \in shared THEN r.geojson ELSE t[k]]
         IN  IF r.exc # "none" THEN [exc |-> r.exc, key |-> r.key, meta |-> m, tile |-> tile1]
             ELSE reproject_geometries(DictSet(m, key, r.geojson), tile1, p, i + 1)

TileKeysMissing(t) ==
    IF k_utmZone \notin DOMAIN t THEN "utmZone"
    ELSE IF k_latitudeBand \notin DOMAIN t THEN "latitudeBand"
    ELSE IF k_gridSquare \notin DOMAIN t THEN "gridSquare"
    ELSE ""

\* tile_metadata of src/sentinel_s3/converter.py: [exc, key, tile, product, meta, grid],
\* tile and product being the arguments as the call leaves them
tile_metadata(t, p) ==
    LET Raise(e, k, t1, p1, g1) ==
            [exc |-> e, key |-> k, tile |-> t1, product |-> p1, meta |-> None_, grid |-> g1]
    IN  IF TileKeysMissing(t) # "" THEN Raise("KeyError", TileKeysMissing(t), t, p, <<>>)
        ELSE LET g == grid_code(t)
        IN  IF k_tiles \notin DOMAIN p THEN Raise("KeyError", "tiles", t, p, g)
        ELSE IF g \notin DOMAIN p[k_tiles].v THEN Raise("KeyError", "grid", t, p, g)
        ELSE IF k_timestamp \notin DOMAIN t THEN Raise("KeyError", "timestamp", t, p, g)
        ELSE IF k_path \notin DOMAIN t THEN Raise("KeyError", "path", t, p, g)
        ELSE LET meta1 == (k_tile_name :> p[k_tiles].v[g])
                          @@ (k_date :> PyStr(split(t[k_timestamp].v, "T")[1]))
                          @@ (k_thumbnail :> PyStr(thumbnail_url(t[k_path].v)))
                 d == remove_unnecessary_keys(t, p)
        IN  IF d.exc # "none" THEN Raise(d.exc, d.key, d.tile, d.product, g)
        ELSE LET meta2 == DictUpdate(DictUpdate(meta1, renamed(d.tile)), d.product)
        IN  IF k_path \notin DOMAIN meta2 THEN Raise("KeyError", "path", d.tile, d.product, g)
        ELSE LET links == [i \in DOMAIN d.bands.v |-> PyStr(download_link(meta2[k_path].v, d.bands.v[i].v))]
                 meta3 == DictSet(meta2, k_download_links, PyDict(k_aws_s3 :> PyList(links)))
                 geo == reproject_geometries(meta3, d.tile, d.product, 1)
        IN  IF geo.exc # "none" THEN Raise(geo.exc, geo.key, geo.tile, d.product, g)
            ELSE [exc |-> "none", key |-> "", tile |-> geo.tile, product |-> d.product,
                  meta |-> PyDict(geo.meta), grid |-> g]

\* tile_metadata of src/scrawler/converter.py: no padding of the zone, no thumbnail
\* (so tile['path'] is first read, through meta, when the links are built), no reprojection
scrawler_tile_metadata(t, p) ==
    LET Raise(e, k, t1, p1, g1) ==
            [exc |-> e, key |-> k, tile |-> t1, product |-> p1, meta |-> None_, grid |-> g1]
    IN  IF TileKeysMissing(t) # "" THEN Raise("KeyError", TileKeysMissing(t), t, p, <<>>)
        ELSE LET g == scrawler_grid_code(t)
        IN  IF k_tiles \notin DOMAIN p THEN Raise("KeyError", "tiles", t, p, g)
        ELSE IF g \notin DOMAIN p[k_tiles].v THEN Raise("KeyError", "grid", t, p, g)
        ELSE IF k_timestamp \notin DOMAIN t THEN Raise("KeyError", "timestamp", t, p, g)
        ELSE LET meta1 == (k_tile_name :> p[k_tiles].v[g])
                          @@ (k_date :> PyStr(split(t[k_timestamp].v, "T")[1]))
                 d == remove_unnecessary_keys(t, p)
        IN  IF d.exc # "none" THEN Raise(d.exc, d.key, d.tile, d.product, g)
        ELSE LET meta2 == DictUpdate(DictUpdate(meta1, renamed(d.tile)), d.product)
        IN  IF k_path \notin DOMAIN meta2 THEN Raise("KeyError", "path", d.tile, d.product, g)
        ELSE LET links == [i \in DOMAIN d.bands.v |-> PyStr(download_link(meta2[k_path].v, d.bands.v[i].v))]
             IN  [exc |-> "none", key |-> "", tile |-> d.tile, product |-> d.product,
                  meta |-> PyDict(DictSet(meta2, k_download_links, PyDict(k_aws_s3 :> PyList(links)))),
                  grid |-> g]

-----------------------------------------------------------------------------
(* Tile records and product records handed to tile_metadata *)

k_tileOrigin ==
    <<"t","i","l","e","O","r","i","g","i","n">>
text_date ==
    <<"2","0","1","6","-","0","1","-","0","1">>
datastrip_id ==
    <<"S","2","A","_","O","P","E","R","_","M","S","I","_","L","1","C","_","D","S","_","S","G","S","_","_","2","0","1","6","0","1","0","1","T","1","0","2","0","2","3">>

Zones == {5, 32}
tile_path(zone) ==
    <<"t","i","l","e","s","/">> \o str_of_int(zone) \o <<"/","T","/","Q","M","/","2","0","1","6","/","1","/","1","/","0">>

\* the tileInfo.json record of tile <zone>TQM
TileInfo(zone) ==
    (k_utmZone :> PyInt(zone)) @@ (k_latitudeBand :> PyStr(<<"T">>)) @@ (k_gridSquare :> PyStr(<<"Q","M">>))
    @@ (k_timestamp :> PyStr(text_stop_time)) @@ (k_path :> PyStr(tile_path(zone)))
    @@ (k_datastrip :> PyDict(<<"i","d">> :> PyStr(datastrip_id)))

\* tileOrigin: a point in UTM 32N, or one whose crs tag lacks properties
TileOrigins ==
    {PyDict(DictSet(Geometry(PyList(<<PyFloat(600000), PyFloat(5100000)>>)), "crs", crs)) :
        crs \in {Crs(urn_utm32), CrsNoProperties}}

\* a record as published, with or without tileOrigin, or lacking one of the keys
TileInputs ==
    LET whole == {TileInfo(z) : z \in Zones}
                 \cup {DictSet(TileInfo(z), k_tileOrigin, o) : z \in Zones, o \in TileOrigins}
    IN  whole \cup {DictDel(TileInfo(z), k) : z \in Zones, k \in {k_utmZone, k_timestamp, k_path, k_datastrip}}

\* products of metadata_to_dict, with both tiles or only T32TQM, and those
\* products lacking band_list
ProductDocs ==
    {Document(ElemsWith(text_cloud, text_orbit), <<po>>, <<bl>>) :
        po \in {BaseOrganisation, <<<<GranuleA>>>>}, bl \in {BaseBands, <<<<"B","4">>>>, <<>>}}
ProductInputs ==
    LET made == {metadata_to_dict(d).ret : d \in ProductDocs}
    IN  made \cup {DictDel(p, k_band_list) : p \in made}

-----------------------------------------------------------------------------
(* The Assembler as a state machine: calls of tile_metadata sharing one product record *)

InitAssemble ==
    /\ op = "input"
    /\ product \in ProductInputs
    /\ metadata = NoDocument /\ geojson = EmptyDict
    /\ args = [tile |-> EmptyDict, product |-> product, module |-> "none"]
    /\ meta = None_ /\ raised = NoExc
    /\ IdleAssembler

Call(module, t, r) ==
    /\ args' = [tile |-> t, product |-> product, module |-> module]
    /\ tile' = r.tile
    /\ product' = r.product
    /\ meta' = r.meta
    /\ raised' = Exc(r.exc, r.key)
    /\ grid' = r.grid
    /\ calls' = calls + 1
    /\ succeeded' = IF r.exc = "none" THEN succeeded + 1 ELSE succeeded
    /\ op' = "tile_metadata"
    /\ UNCHANGED <<metadata, geojson>>

TileMetadata ==
    /\ op \in {"input", "tile_metadata"} /\ metadata = NoDocument /\ geojson = EmptyDict
    /\ calls < MaxCalls
    /\ \E t \in TileInputs : Call("sentinel_s3", t, tile_metadata(t, product))

ScrawlerTileMetadata ==
    /\ op \in {"input", "tile_metadata"} /\ metadata = NoDocument /\ geojson = EmptyDict
    /\ calls < MaxCalls
    /\ \E t \in TileInputs : Call("scrawler", t, scrawler_tile_metadata(t, product))

NextAssemble == TileMetadata \/ ScrawlerTileMetadata

SpecAssemble == InitAssemble /\ [][NextAssemble]_vars

-----------------------------------------------------------------------------
(* Properties of the Assembler *)

\* the zone as two decimal digits
TwoDigits(zone) == <<DigitSeq[(zone \div 10) + 1], DigitSeq[(zone % 10) + 1]>>
PaddedGridCode(t) == <<"T">> \o TwoDigits(t[k_utmZone].v) \o t[k_latitudeBand].v \o t[k_gridSquare].v

\* C4 as stated: in both modules the grid code looked up in product['tiles'] is
\* 'T' + zone zero-padded to two digits + latitudeBand + gridSquare, and tile_name
\* is product['tiles'] at that code
C4_GridCodeZeroPadded ==
    (op = "tile_metadata" /\ TileKeysMissing(args.tile) = "")
    => /\ grid = PaddedGridCode(args.tile)
       /\ raised.exc = "none"
          => meta.v[k_tile_name] = args.product[k_tiles].v[PaddedGridCode(args.tile)]

Drained ==
    /\ k_tiles \notin DOMAIN product
    /\ k_band_list \notin DOMAIN product
    /\ k_datastrip \notin DOMAIN tile

\* C5 as stated: a call that returns has drained its arguments, and of the calls
\* sharing one product record only the first can return: every later one fails
\* with a lookup error and returns no record
C5_OnlyFirstCallReturns ==
    /\ Returned("tile_metadata") => Drained
    /\ (op = "tile_metadata" /\ calls >= 2) => (raised.exc = "KeyError" /\ meta = None_)

\* C5 amended: a call that returns has drained its arguments, and of the calls
\* sharing one product record at most one returns: every call after the one that
\* returned fails with a lookup error (that of product['tiles'], unless the tile
\* lacks a key of the grid code) and returns no record
C5_AtMostOneCallReturns ==
    /\ Returned("tile_metadata") => Drained
    /\ succeeded <= 1
    /\ (op = "tile_metadata" /\ succeeded = 1 /\ raised.exc # "none")
       => /\ raised.exc = "KeyError"
          /\ raised.key = (IF TileKeysMissing(args.tile) = "" THEN "tiles" ELSE TileKeysMissing(args.tile))
          /\ meta = None_

\* C5 witness: a call made after the one that returned has failed on product['tiles']
C5_Witness ==
    /\ op = "tile_metadata" /\ succeeded = 1 /\ calls >= 2
    /\ raised = Exc("KeyError", "tiles")
    /\ k_band_list \notin DOMAIN args.product

\* C6: the links of a returned record are one per band of the product's band_list
\* as it was before the call, in order, base URL / the tile's path / band .jp2, and
\* the record has no datastrip, tiles or band_list key
C6_DownloadLinks ==
    Returned("tile_metadata") =>
        LET bands == args.product[k_band_list].v
            links == meta.v[k_download_links].v[k_aws_s3].v
        IN  /\ Len(links) = Len(bands)
            /\ \A i \in DOMAIN bands :
                  links[i] = PyStr(s3_url \o <<"/">> \o args.tile[k_path].v \o <<"/">>
                                   \o bands[i].v \o <<".","j","p","2">>)
            /\ DOMAIN meta.v \cap {k_datastrip, k_tiles, k_band_list} = {}

\* C6 witness: the scenario's tile and a two-band product
C6_Witness ==
    /\ Returned("tile_metadata")
    /\ args.product[k_band_list].v = <<PyStr(<<"B","0","4">>), PyStr(<<"B","8","A">>)>>
    /\ meta.v[k_download_links].v[k_aws_s3].v[1] =
           PyStr(<<"h","t","t","p",":","/","/","s","e","n","t","i","n","e","l","-","s","2","-","l","1","c",
                   ".","s","3",".","a","m","a","z","o","n","a","w","s",".","c","o","m","/",
                   "t","i","l","e","s","/","3","2","/","T","/","Q","M","/","2","0","1","6","/","1","/","1","/","0",
                   "/","B","0","4",".","j","p","2">>)

Failed(key) == op = "tile_metadata" /\ raised = Exc("KeyError", key)

\* C10 as stated: a call that fails on the grid code, on the tile's timestamp, path
\* or datastrip, or on the product's band_list leaves tile and product as they were
C10_FailureLeavesArgumentsIntact ==
    (\E key \in {"grid", "timestamp", "path", "datastrip", "band_list"} : Failed(key))
    => tile = args.tile /\ product = args.product

\* C10 amended: tile and product are as they were when the call fails on the grid
\* code or on the tile's timestamp (in sentinel_s3 also on its path); a call that
\* fails on the tile's datastrip has removed tiles from product; one that fails on
\* the product's band_list has removed tiles from product and datastrip from tile;
\* in scrawler one that fails on the tile's path has removed all three
C10_FailureAfterRemovalIsNotUndone ==
    /\ (Failed("grid") \/ Failed("timestamp") \/ (Failed("path") /\ args.module = "sentinel_s3"))
       => tile = args.tile /\ product = args.product
    /\ Failed("datastrip")
       => tile = args.tile /\ product = DictDel(args.product, k_tiles)
    /\ Failed("band_list")
       => tile = DictDel(args.tile, k_datastrip) /\ product = DictDel(args.product, k_tiles)
    /\ (Failed("path") /\ args.module = "scrawler")
       => /\ tile = DictDel(args.tile, k_datastrip)
          /\ product = DictDel(DictDel(args.product, k_tiles), k_band_list)

\* C10 witness: a call has failed on the tile's datastrip and product has lost tiles
C10_Witness ==
    /\ Failed("datastrip")
    /\ k_tiles \in DOMAIN args.product
    /\ k_tiles \notin DOMAIN product

====
